---------------------------- MODULE Spec2Model ----------------------------
(***************************************************************************)
(* VantagePoint metadata API (src/main.py): the process-wide TTL cache,    *)
(* the seed market list and the request handlers that read and fill the    *)
(* cache, as a state machine.                                              *)
(*                                                                         *)
(* Text is a sequence of one-character strings, so that f-string           *)
(* formatting, str(), lower(), upper() and the substring test are computed *)
(* character by character as Python computes them.  A market in a response *)
(* or in the cache is a reference to a seed dict: its position in          *)
(* MOCK_MARKETS (Python lists hold references, the dicts are never         *)
(* copied).  Time is counted in ticks of 1/TicksPerSecond second, so that  *)
(* int(time.time()) is a real floor.  A handler is an async def without    *)
(* any await, so under the event loop it runs as one step (Spec); SpecConc *)
(* splits list_markets and hot_markets at their cache_get / compute /      *)
(* cache_set boundaries for the interleavings of a threaded host.          *)
(***************************************************************************)
EXTENDS Integers, Sequences, FiniteSets, TLC

VARIABLES
    now,        \* time.time(), in ticks
    served,     \* how many requests were served (bounds the run)
    cache,      \* _cache: key -> [ts, val]
    rng,        \* state of the random module's shared generator
    resp,       \* the last response sent
    lastSet,    \* history: key -> time and value of the latest cache_set call
    phSeen,     \* history: price-history arguments -> the candles first returned, the calls
    procs       \* in-flight requests of the split handlers (SpecConc only)

vars == <<now, served, cache, rng, resp, lastSet, phSeen, procs>>

---------------------------------------------------------------------------
(* Bounds of the exploration *)

TicksPerSecond == 2
MaxRequests == 2
MaxCandles == 2
NumProcs == 2

---------------------------------------------------------------------------
(* Config, src/main.py 27-32 *)

CACHE_TTL_SECONDS == 60

IPFS_GATEWAY == <<"h","t","t","p","s",":","/","/","c","l","o","u","d","f","l","a","r","e","-","i","p","f","s",".","c","o","m","/","i","p","f","s","/">>

TTLTicks == CACHE_TTL_SECONDS * TicksPerSecond

---------------------------------------------------------------------------
(* Python values and text *)

\* None where a cached value or a response body is expected.
None == [kind |-> "None"]

\* None where an Optional[str] is expected (no text has a four-character element).
NoneStr == <<"None">>

S_None == <<"N","o","n","e">>

Lowers == <<"a","b","c","d","e","f","g","h","i","j","k","l","m","n","o","p","q","r","s","t","u","v","w","x","y","z">>

Uppers == <<"A","B","C","D","E","F","G","H","I","J","K","L","M","N","O","P","Q","R","S","T","U","V","W","X","Y","Z">>

Digits == <<"0","1","2","3","4","5","6","7","8","9">>

IndexIn(c, alphabet) ==
    IF \E i \in 1..Len(alphabet) : alphabet[i] = c
    THEN CHOOSE i \in 1..Len(alphabet) : alphabet[i] = c
    ELSE 0

\* str.lower() and str.upper() on the characters the inputs use (ASCII).
LowerChar(c) == IF IndexIn(c, Uppers) > 0 THEN Lowers[IndexIn(c, Uppers)] ELSE c

UpperChar(c) == IF IndexIn(c, Lowers) > 0 THEN Uppers[IndexIn(c, Lowers)] ELSE c

lower(s) == [i \in 1..Len(s) |-> LowerChar(s[i])]

upper(s) == [i \in 1..Len(s) |-> UpperChar(s[i])]

\* Python's `q in s` for two strings.
Contains(q, s) ==
    \E i \in 0..(Len(s) - Len(q)) : SubSeq(s, i + 1, i + Len(q)) = q

RECURSIVE NatToStr(_)
NatToStr(n) ==
    IF n < 10 THEN <<Digits[n + 1]>>
    ELSE NatToStr(n \div 10) \o <<Digits[(n % 10) + 1]>>

\* str(n) of an int, as an f-string formats it.
IntToStr(n) == IF n < 0 THEN <<"-">> \o NatToStr(0 - n) ELSE NatToStr(n)

\* str(x) of an Optional[str], as an f-string formats it.
OptToStr(x) == IF x = NoneStr THEN S_None ELSE x

\* bool(x) of an Optional[str]: None and "" are falsy.
TruthyStr(x) == x # NoneStr /\ x # <<>>

RECURSIVE JoinQuoted(_)
JoinQuoted(l) ==
    IF l = <<>> THEN <<>>
    ELSE <<"'">> \o Head(l) \o <<"'">>
         \o (IF Len(l) > 1 THEN <<",", " ">> \o JoinQuoted(Tail(l)) ELSE <<>>)

\* str(l) of a list of plain strings: ['a', 'b'].
ListToStr(l) == <<"[">> \o JoinQuoted(l) \o <<"]">>

\* int(t) of a non-negative float time: whole seconds.
FloorSeconds(t) == t \div TicksPerSecond

MinOf(a, b) == IF a < b THEN a ELSE b

MaxOf(a, b) == IF a > b THEN a ELSE b

Abs(a) == IF a < 0 THEN 0 - a ELSE a

---------------------------------------------------------------------------
(* Seed data, src/main.py 121-186.  The fields the handlers read; the     *)
(* other fields of a seed dict travel with the reference.                  *)

Q1 == <<"W","i","l","l"," ","t","h","e"," ","F","e","d"," ","c","u","t"," ","r","a","t","e","s"," ","b","y"," ","5","0","b","p","s"," ","b","e","f","o","r","e"," ","J","u","n","e"," ","2","0","2","5","?">>

Q2 == <<"W","i","l","l"," ","B","i","t","c","o","i","n"," ","e","x","c","e","e","d"," ","$","1","5","0","K"," ","b","e","f","o","r","e"," ","e","n","d"," ","o","f"," ","2","0","2","5","?">>

Q3 == <<"W","i","l","l"," ","t","h","e"," ","K","a","n","s","a","s"," ","C","i","t","y"," ","C","h","i","e","f","s"," ","w","i","n"," ","S","u","p","e","r"," ","B","o","w","l"," ","L","X","?">>

Q4 == <<"W","i","l","l"," ","G","P","T","-","5"," ","b","e"," ","r","e","l","e","a","s","e","d"," ","b","e","f","o","r","e"," ","C","l","a","u","d","e"," ","4","?">>

T1 == <<<<"f","e","d">>, <<"r","a","t","e","s">>, <<"m","a","c","r","o">>, <<"f","i","n","a","n","c","e">>>>

T2 == <<<<"b","i","t","c","o","i","n">>, <<"b","t","c">>, <<"c","r","y","p","t","o">>, <<"p","r","i","c","e">>>>

T3 == <<<<"n","f","l">>, <<"s","u","p","e","r","b","o","w","l">>, <<"c","h","i","e","f","s">>, <<"s","p","o","r","t","s">>>>

T4 == <<<<"a","i">>, <<"o","p","e","n","a","i">>, <<"a","n","t","h","r","o","p","i","c">>, <<"l","l","m">>>>

MOCK_MARKETS == <<
    [market_id |-> 1, question |-> Q1, category |-> <<"P","O","L","I","T","I","C","S">>,
     tags |-> T1, yes_price_bps |-> 6840, total_volume_usd |-> 2450000,
     volume_24h_usd |-> 185000, num_traders |-> 1247],
    [market_id |-> 2, question |-> Q2, category |-> <<"C","R","Y","P","T","O">>,
     tags |-> T2, yes_price_bps |-> 4230, total_volume_usd |-> 8920000,
     volume_24h_usd |-> 720000, num_traders |-> 5832],
    [market_id |-> 3, question |-> Q3, category |-> <<"S","P","O","R","T","S">>,
     tags |-> T3, yes_price_bps |-> 3100, total_volume_usd |-> 1230000,
     volume_24h_usd |-> 95000, num_traders |-> 892],
    [market_id |-> 4, question |-> Q4, category |-> <<"C","U","L","T","U","R","E">>,
     tags |-> T4, yes_price_bps |-> 5500, total_volume_usd |-> 680000,
     volume_24h_usd |-> 48000, num_traders |-> 418] >>

\* list(MOCK_MARKETS): the references, in list order.
SeedRefs == [i \in 1..Len(MOCK_MARKETS) |-> i]

---------------------------------------------------------------------------
(* In-memory cache, src/main.py 38-48 *)

\* cache_get with the freshness test written `<=`.
cache_get_inclusive(c, key, t) ==
    IF key \in DOMAIN c
    THEN IF t - c[key].ts <= TTLTicks THEN c[key].val ELSE None
    ELSE None

cache_get(c, key, t) ==
    IF key \in DOMAIN c
    THEN IF t - c[key].ts < TTLTicks THEN c[key].val ELSE None
    ELSE None

\* cache_set as dict.setdefault: an entry already there is kept.
cache_set_keep_first(c, key, val, t) ==
    [k \in (DOMAIN c) \cup {key} |->
        IF k \in DOMAIN c THEN c[k] ELSE [ts |-> t, val |-> val]]

\* cache_set that first drops the entries that have aged out.
cache_set_purging(c, key, val, t) ==
    [k \in {j \in DOMAIN c : t - c[j].ts < TTLTicks} \cup {key} |->
        IF k = key THEN [ts |-> t, val |-> val] ELSE c[k]]

cache_set(c, key, val, t) ==
    [k \in (DOMAIN c) \cup {key} |-> IF k = key THEN [ts |-> t, val |-> val] ELSE c[k]]

\* `if cached:` on what cache_get returned.  None is falsy; a list is falsy
\* when empty; a dict is falsy when empty; a pydantic model is always truthy.
Truthy(v) ==
    CASE v.kind = "None" -> FALSE
      [] v.kind = "list" -> v.items # <<>>
      [] OTHER -> TRUE

\* The history of cache_set calls: the time and value of the latest call on
\* each key, and how many calls the key has had.
RecordSet(h, key, val, t) ==
    [k \in (DOMAIN h) \cup {key} |->
        IF k = key
        THEN [t |-> t, v |-> val, n |-> IF key \in DOMAIN h THEN h[key].n + 1 ELSE 1]
        ELSE h[k]]

---------------------------------------------------------------------------
(* GET /markets, src/main.py 232-272 *)

\* The f-string of line 241.
ListKey(r) ==
    <<"m","a","r","k","e","t","s",":">> \o OptToStr(r.category) \o <<":">>
    \o r.sort_by \o <<":">> \o IntToStr(r.page) \o <<":">>
    \o IntToStr(r.page_size) \o <<":">> \o OptToStr(r.search)

\* Lines 249-250.
FilterCategory(ms, category) ==
    LET Keep(i) == upper(MOCK_MARKETS[i].category) = upper(category)
    IN  IF TruthyStr(category) THEN SelectSeq(ms, Keep) ELSE ms

\* Lines 251-253.
FilterSearch(ms, search) ==
    LET q == lower(search)
        Keep(i) == \/ Contains(q, lower(MOCK_MARKETS[i].question))
                   \/ Contains(q, lower(ListToStr(MOCK_MARKETS[i].tags)))
    IN  IF TruthyStr(search) THEN SelectSeq(ms, Keep) ELSE ms

\* sort_map.get(sort_by, sort_map["volume_24h"]), lines 256-262: the key of
\* every seed market under sort_by.
SortKey(sort_by) ==
    [i \in 1..Len(MOCK_MARKETS) |->
        CASE sort_by = <<"v","o","l","u","m","e","_","2","4","h">> -> MOCK_MARKETS[i].volume_24h_usd
          [] sort_by = <<"t","o","t","a","l","_","v","o","l","u","m","e">> -> MOCK_MARKETS[i].total_volume_usd
          [] sort_by = <<"n","u","m","_","t","r","a","d","e","r","s">> -> MOCK_MARKETS[i].num_traders
          [] sort_by = <<"y","e","s","_","p","r","i","c","e">> -> MOCK_MARKETS[i].yes_price_bps
          [] OTHER -> MOCK_MARKETS[i].volume_24h_usd]

\* x goes after every element whose key is at least its own.
RECURSIVE InsertDesc(_, _, _)
InsertDesc(sorted, x, k) ==
    IF sorted = <<>> THEN <<x>>
    ELSE IF k[Head(sorted)] >= k[x]
         THEN <<Head(sorted)>> \o InsertDesc(Tail(sorted), x, k)
         ELSE <<x>> \o sorted

\* list.sort(key=k, reverse=True) and sorted(..., reverse=True): descending
\* and stable (equal keys keep their order).
RECURSIVE SortDesc(_, _)
SortDesc(s, k) ==
    IF s = <<>> THEN <<>>
    ELSE InsertDesc(SortDesc(SubSeq(s, 1, Len(s) - 1), k), s[Len(s)], k)

\* s[start:end] for 0 <= start <= end.
Slice(s, start, end) == SubSeq(s, start + 1, MinOf(end, Len(s)))

\* Lines 246-270: the result computed from the seed data.
ListCompute(r) ==
    LET markets == SortDesc(FilterSearch(FilterCategory(SeedRefs, r.category), r.search),
                            SortKey(r.sort_by))
        total == Len(markets)
        start == (r.page - 1) * r.page_size
        end == start + r.page_size
    IN  [kind |-> "MarketSearchResult", markets |-> Slice(markets, start, end),
         total_count |-> total, page |-> r.page, page_size |-> r.page_size]

LR(category, sort_by, page, page_size, search) ==
    [category |-> category, sort_by |-> sort_by, page |-> page,
     page_size |-> page_size, search |-> search]

S_volume_24h == <<"v","o","l","u","m","e","_","2","4","h">>

S_total_volume == <<"t","o","t","a","l","_","v","o","l","u","m","e">>

S_num_traders == <<"n","u","m","_","t","r","a","d","e","r","s">>

S_yes_price == <<"y","e","s","_","p","r","i","c","e">>

\* The requests explored: every recognised sort_by and an unrecognised one, a
\* category in lower case, a page inside and a page past the data, searches
\* that hit a question in another case and the string form of the tag list,
\* the text "None" as search and as category, and values that contain the
\* ':' of the cache key.
ListRequests == {
    LR(NoneStr, S_volume_24h, 1, 20, NoneStr),
    LR(NoneStr, S_volume_24h, 1, 20, S_None),
    LR(S_None, S_volume_24h, 1, 20, NoneStr),
    LR(<<"c","r","y","p","t","o">>, S_num_traders, 1, 1, NoneStr),
    LR(NoneStr, S_yes_price, 2, 3, NoneStr),
    LR(NoneStr, S_yes_price, 3, 3, NoneStr),
    LR(NoneStr, <<"b","o","g","u","s">>, 1, 20, NoneStr),
    LR(NoneStr, S_yes_price, 1, 20, <<"q",":","1",":","2","0",":","N","o","n","e">>),
    LR(NoneStr, <<"y","e","s","_","p","r","i","c","e",":","1",":","2","0",":","q">>, 1, 20, NoneStr),
    LR(NoneStr, S_total_volume, 1, 20, <<"F","E","D">>),
    LR(NoneStr, S_num_traders, 1, 20, <<"'",","," ","'">>) }

\* ListKey and ListCompute of the explored requests, evaluated once.
ListKeyOf == [r \in ListRequests |-> ListKey(r)]

ListResultOf == [r \in ListRequests |-> ListCompute(r)]

\* What the handler returns for r when the cache is c and the time t.
ListReturns(c, t, r) ==
    LET cached == cache_get(c, ListKeyOf[r], t)
    IN  IF Truthy(cached) THEN cached ELSE ListResultOf[r]

list_markets(r) ==
    LET cache_key == ListKeyOf[r]
        cached == cache_get(cache, cache_key, now)
        result == ListResultOf[r]
    IN  /\ served < MaxRequests
        /\ served' = served + 1
        /\ resp' = [handler |-> "list_markets", req |-> r, status |-> 200,
                    body |-> ListReturns(cache, now, r)]
        /\ IF Truthy(cached)
           THEN UNCHANGED <<cache, lastSet>>
           ELSE /\ cache' = cache_set(cache, cache_key, result, now)
                /\ lastSet' = RecordSet(lastSet, cache_key, result, now)
        /\ UNCHANGED <<now, rng, phSeen, procs>>

---------------------------------------------------------------------------
(* GET /markets/hot, src/main.py 275-289 *)

HotKey(limit) == <<"h","o","t",":">> \o IntToStr(limit)

\* Line 284, on the seed's values (each product is a multiple of 5000).
HotScore ==
    [i \in 1..Len(MOCK_MARKETS) |->
        (MOCK_MARKETS[i].volume_24h_usd * Abs(MOCK_MARKETS[i].yes_price_bps - 5000)) \div 5000]

HotCompute(limit) ==
    [kind |-> "list", items |-> Slice(SortDesc(SeedRefs, HotScore), 0, limit)]

HotLimits == {1, 5}

HotReturns(c, t, limit) ==
    LET cached == cache_get(c, HotKey(limit), t)
    IN  IF Truthy(cached) THEN cached ELSE HotCompute(limit)

hot_markets(limit) ==
    LET cached == cache_get(cache, HotKey(limit), now)
        result == HotCompute(limit)
    IN  /\ served < MaxRequests
        /\ served' = served + 1
        /\ resp' = [handler |-> "hot_markets", req |-> [limit |-> limit], status |-> 200,
                    body |-> HotReturns(cache, now, limit)]
        /\ IF Truthy(cached)
           THEN UNCHANGED <<cache, lastSet>>
           ELSE /\ cache' = cache_set(cache, HotKey(limit), result, now)
                /\ lastSet' = RecordSet(lastSet, HotKey(limit), result, now)
        /\ UNCHANGED <<now, rng, phSeen, procs>>

---------------------------------------------------------------------------
(* GET /markets/{market_id}, src/main.py 292-304 *)

MarketKey(market_id) == <<"m","a","r","k","e","t",":">> \o IntToStr(market_id)

\* The lookup with the first seed dict as next()'s default.
FindMarket_first_as_default(market_id) ==
    LET hits == {i \in 1..Len(MOCK_MARKETS) : MOCK_MARKETS[i].market_id = market_id}
    IN  [kind |-> "market",
         ref |-> IF hits = {} THEN 1 ELSE CHOOSE i \in hits : \A j \in hits : i <= j]

\* next((m for m in MOCK_MARKETS if m["market_id"] == market_id), None):
\* the first seed dict with the id, or None.
FindMarket(market_id) ==
    LET hits == {i \in 1..Len(MOCK_MARKETS) : MOCK_MARKETS[i].market_id = market_id}
    IN  IF hits = {} THEN None
        ELSE [kind |-> "market", ref |-> CHOOSE i \in hits : \A j \in hits : i <= j]

\* The detail of the HTTPException of line 301.
NotFoundDetail(market_id) ==
    <<"M","a","r","k","e","t"," ">> \o IntToStr(market_id) \o <<" ","n","o","t"," ","f","o","u","n","d">>

MarketIds == {4, 999, -1}

\* What the handler answers: the record returned, or the 404 raised.
MarketReturns(c, t, market_id) ==
    LET cached == cache_get(c, MarketKey(market_id), t)
        market == FindMarket(market_id)
    IN  IF Truthy(cached) THEN [status |-> 200, body |-> cached, detail |-> <<>>]
        ELSE IF ~Truthy(market)
        THEN [status |-> 404, body |-> None, detail |-> NotFoundDetail(market_id)]
        ELSE [status |-> 200, body |-> market, detail |-> <<>>]

get_market(market_id) ==
    LET cached == cache_get(cache, MarketKey(market_id), now)
        market == FindMarket(market_id)
        answer == MarketReturns(cache, now, market_id)
    IN  /\ served < MaxRequests
        /\ served' = served + 1
        /\ resp' = [handler |-> "get_market", req |-> [market_id |-> market_id],
                    status |-> answer.status, body |-> answer.body, detail |-> answer.detail]
        /\ IF Truthy(cached) \/ ~Truthy(market)
           THEN UNCHANGED <<cache, lastSet>>
           ELSE /\ cache' = cache_set(cache, MarketKey(market_id), market, now)
                /\ lastSet' = RecordSet(lastSet, MarketKey(market_id), market, now)
        /\ UNCHANGED <<now, rng, phSeen, procs>>

---------------------------------------------------------------------------
(* GET /markets/{market_id}/price-history, src/main.py 331-357.  The      *)
(* random module's generator is one object shared by the whole process.    *)
(* Its algorithm is stood in for by a small linear congruential generator: *)
(* what matters here is that seed() fixes the state and that every draw    *)
(* reads and advances the shared state.                                    *)

\* seed() that leaves the shared state as it was.
random_seed_skipped(s, a) == s

\* random.seed(a): the state afterwards depends on a alone.
random_seed(s, a) == (a * 7919 + 104729) % 65537

RngNext(s) == (s * 75 + 74) % 65537

\* The value random.randint(lo, hi) (or uniform(lo, hi), on whole numbers)
\* returns when the generator has just moved to state s.
RngValue(s, lo, hi) == lo + (s % (hi - lo + 1))

\* intervals.get(interval, 3600), lines 339-340.
IntervalStep(interval) ==
    CASE interval = <<"1","m">> -> 60
      [] interval = <<"5","m">> -> 300
      [] interval = <<"1","5","m">> -> 900
      [] interval = <<"1","h">> -> 3600
      [] interval = <<"4","h">> -> 14400
      [] interval = <<"1","d">> -> 86400
      [] OTHER -> 3600

\* The loop of lines 346-355 from counter i down to 1: the candles and the
\* generator's state after them.
RECURSIVE CandleWalk(_, _, _, _, _)
CandleWalk(i, price, s, nowSec, step) ==
    IF i <= 0 THEN [candles |-> <<>>, rng |-> s]
    ELSE LET s1 == RngNext(s)
             s2 == RngNext(s1)
             s3 == RngNext(s2)
             s4 == RngNext(s3)
             delta == RngValue(s1, -200, 200)
             open_ == price
             close == MaxOf(100, MinOf(9900, price + delta))
             high == MaxOf(open_, close) + RngValue(s2, 0, 100)
             low == MinOf(open_, close) - RngValue(s3, 0, 100)
             vol == RngValue(s4, 10000, 200000)
             rest == CandleWalk(i - 1, close, s4, nowSec, step)
         IN  [candles |-> <<[time |-> nowSec - i * step, open |-> open_, high |-> high,
                             low |-> low, close |-> close, volume |-> vol]>> \o rest.candles,
              rng |-> rest.rng]

\* A candle sequence without its time fields.
StripTime(candles) ==
    [i \in 1..Len(candles) |->
        [open |-> candles[i].open, high |-> candles[i].high, low |-> candles[i].low,
         close |-> candles[i].close, volume |-> candles[i].volume]]

PriceHistoryRequests ==
    [market_id : {1, 2}, limit : 1..MaxCandles, interval : {<<"1","m">>}]
    \cup [market_id : {1}, limit : {1}, interval : {<<"b","o","g","u","s">>}]

get_price_history(r) ==
    LET nowSec == FloorSeconds(now)
        step == IntervalStep(r.interval)
        walk == CandleWalk(r.limit, 5000, random_seed(rng, r.market_id), nowSec, step)
    IN  /\ served < MaxRequests
        /\ served' = served + 1
        /\ rng' = walk.rng
        /\ resp' = [handler |-> "get_price_history", req |-> r, status |-> 200,
                    body |-> [kind |-> "candles", market_id |-> r.market_id,
                              interval |-> r.interval, candles |-> walk.candles]]
        /\ phSeen' = IF r \in DOMAIN phSeen
                     THEN [phSeen EXCEPT ![r].calls = @ + 1]
                     ELSE (r :> [candles |-> StripTime(walk.candles), calls |-> 1]) @@ phSeen
        /\ UNCHANGED <<now, cache, lastSet, procs>>

---------------------------------------------------------------------------
(* POST /markets, src/main.py 360-384 *)

\* Line 367.  A conditional expression binds looser than `or`:
\* (image_url or gateway + hash) if image_ipfs_hash else "".
ResolveImageUrl(image_url, image_ipfs_hash) ==
    IF TruthyStr(image_ipfs_hash)
    THEN IF TruthyStr(image_url) THEN image_url
         ELSE IPFS_GATEWAY \o OptToStr(image_ipfs_hash)
    ELSE <<>>

\* The id without int(): the time as it is.
MetadataId_unfloored(t) == <<"v","p","-">> \o IntToStr(t)

\* Line 366.
MetadataId(t) == <<"v","p","-">> \o IntToStr(FloorSeconds(t))

PendingKey(metadata_id) ==
    <<"p","e","n","d","i","n","g","_","m","e","t","a",":">> \o metadata_id

S_url == <<"h","t","t","p","s",":","/","/","x","/","i",".","p","n","g">>

S_hash == <<"Q","m","X","Y","Z">>

\* The image source of a request; its other fields are copied unchanged.
CreateRequests == [image_url : {NoneStr, S_url}, image_ipfs_hash : {NoneStr, S_hash}]

\* The three time.time() calls of one request (lines 366, 378, 48) are taken
\* at one instant.
create_market_metadata(req) ==
    LET metadata_id == MetadataId(now)
        image_url == ResolveImageUrl(req.image_url, req.image_ipfs_hash)
        new_meta == [kind |-> "meta", metadata_id |-> metadata_id,
                     image_url |-> image_url, created_at |-> now]
    IN  /\ served < MaxRequests
        /\ served' = served + 1
        /\ cache' = cache_set(cache, PendingKey(metadata_id), new_meta, now)
        /\ lastSet' = RecordSet(lastSet, PendingKey(metadata_id), new_meta, now)
        /\ resp' = [handler |-> "create_market_metadata", req |-> req, status |-> 201,
                    body |-> [kind |-> "created", metadata_id |-> metadata_id,
                              ipfs_uri |-> <<"i","p","f","s",":","/","/">> \o metadata_id]]
        /\ UNCHANGED <<now, rng, phSeen, procs>>

---------------------------------------------------------------------------
(* The clock and the whole program *)

\* The instants at which requests arrive: two in the same second, one a tick
\* short of the TTL after the first, one a full TTL after it.
Times == {0, 1, TTLTicks - 1, TTLTicks}

\* time.time() moves on between two requests.
Tick(t) ==
    /\ t > now
    /\ now' = t
    /\ UNCHANGED <<served, cache, rng, resp, lastSet, phSeen, procs>>

\* The generator's state after import (seeded from the OS): any value.
RngStart == {0, 1}

NoResponse == [handler |-> "none", req |-> None, status |-> 0, body |-> None]

Init ==
    /\ now = 0
    /\ served = 0
    /\ cache = <<>>
    /\ rng \in RngStart
    /\ resp = NoResponse
    /\ lastSet = <<>>
    /\ phSeen = <<>>
    /\ procs = <<>>

Next ==
    \/ \E r \in ListRequests : list_markets(r)
    \/ \E limit \in HotLimits : hot_markets(limit)
    \/ \E market_id \in MarketIds : get_market(market_id)
    \/ \E r \in PriceHistoryRequests : get_price_history(r)
    \/ \E req \in CreateRequests : create_market_metadata(req)
    \/ \E t \in Times : Tick(t)

Spec == Init /\ [][Next]_vars

---------------------------------------------------------------------------
(* list_markets and hot_markets with several requests in flight: each      *)
(* request does its cache_get (lines 242, 278), its computation (246-270,  *)
(* 282-287) and its cache_set and return (271-272, 288-289) as separate    *)
(* steps, its cache_key, result and parameters being locals of the call.   *)

Idle == [pc |-> "idle", handler |-> "none", req |-> None, key |-> <<>>, result |-> None]

ConcListRequests == {
    LR(NoneStr, S_volume_24h, 1, 20, NoneStr),
    LR(NoneStr, S_volume_24h, 1, 20, S_None),
    LR(<<"c","r","y","p","t","o">>, S_num_traders, 1, 1, NoneStr) }

ConcHotLimits == {1, 5}

HandlerKey(handler, r) ==
    IF handler = "list_markets" THEN ListKeyOf[r] ELSE HotKey(r.limit)

HandlerCompute(handler, r) ==
    IF handler = "list_markets" THEN ListResultOf[r] ELSE HotCompute(r.limit)

\* The request of worker p arrives and does its cache_get: a hit is returned
\* at once.
ConcLookup(p, handler, r) ==
    LET cache_key == HandlerKey(handler, r)
        cached == cache_get(cache, cache_key, now)
    IN  /\ procs[p].pc = "idle"
        /\ served' = served + 1
        /\ IF Truthy(cached)
           THEN /\ resp' = [handler |-> handler, req |-> r, status |-> 200, body |-> cached]
                /\ procs' = [procs EXCEPT ![p] = [pc |-> "done", handler |-> handler,
                                                  req |-> r, key |-> cache_key, result |-> cached]]
           ELSE /\ procs' = [procs EXCEPT ![p] = [pc |-> "miss", handler |-> handler,
                                                  req |-> r, key |-> cache_key, result |-> None]]
                /\ UNCHANGED resp
        /\ UNCHANGED <<now, cache, rng, lastSet, phSeen>>

\* The request computes its result from the seed data.
ConcCompute(p) ==
    /\ procs[p].pc = "miss"
    /\ procs' = [procs EXCEPT ![p].pc = "computed",
                              ![p].result = HandlerCompute(procs[p].handler, procs[p].req)]
    /\ UNCHANGED <<now, served, cache, rng, resp, lastSet, phSeen>>

\* The request does its cache_set and returns its result.
ConcStore(p) ==
    /\ procs[p].pc = "computed"
    /\ cache' = cache_set(cache, procs[p].key, procs[p].result, now)
    /\ lastSet' = RecordSet(lastSet, procs[p].key, procs[p].result, now)
    /\ resp' = [handler |-> procs[p].handler, req |-> procs[p].req, status |-> 200,
                body |-> procs[p].result]
    /\ procs' = [procs EXCEPT ![p].pc = "done"]
    /\ UNCHANGED <<now, served, rng, phSeen>>

InitConc ==
    /\ now = 0
    /\ served = 0
    /\ cache = <<>>
    /\ rng \in RngStart
    /\ resp = NoResponse
    /\ lastSet = <<>>
    /\ phSeen = <<>>
    /\ procs = [p \in 1..NumProcs |-> Idle]

NextConc ==
    \/ \E p \in 1..NumProcs, r \in ConcListRequests : ConcLookup(p, "list_markets", r)
    \/ \E p \in 1..NumProcs, l \in ConcHotLimits : ConcLookup(p, "hot_markets", [limit |-> l])
    \/ \E p \in 1..NumProcs : ConcCompute(p)
    \/ \E p \in 1..NumProcs : ConcStore(p)
    \/ \E t \in Times : Tick(t)

SpecConc == InitConc /\ [][NextConc]_vars

---------------------------------------------------------------------------
(* Properties *)

SeedIds == {MOCK_MARKETS[i].market_id : i \in 1..Len(MOCK_MARKETS)}

\* The keys looked up: every key a handler can use, and one nobody sets.
ProbeKeys ==
    {ListKeyOf[r] : r \in ListRequests} \cup {HotKey(l) : l \in HotLimits}
    \cup {MarketKey(m) : m \in MarketIds}
    \cup {PendingKey(MetadataId(t)) : t \in Times} \cup {<<"n","o","b","o","d","y">>}

\* C1: for every key, cache_get returns the value of the latest cache_set on
\* the key exactly when there was one and less than CACHE_TTL_SECONDS have
\* passed since; otherwise (never set, or aged TTL or more) it reports absent.
\* With no time passed this is the round trip set-then-get.
C1_CacheGetFreshIff ==
    \A k \in ProbeKeys \cup DOMAIN cache \cup DOMAIN lastSet :
        cache_get(cache, k, now) =
            IF k \in DOMAIN lastSet
               /\ now - lastSet[k].t < CACHE_TTL_SECONDS * TicksPerSecond
            THEN lastSet[k].v
            ELSE None

\* One entry aged exactly the TTL is absent while another, one tick younger,
\* is still returned.
C1_Witness ==
    \E k1, k2 \in DOMAIN lastSet :
        /\ now - lastSet[k1].t = CACHE_TTL_SECONDS * TicksPerSecond
        /\ cache_get(cache, k1, now) = None
        /\ now - lastSet[k2].t = CACHE_TTL_SECONDS * TicksPerSecond - 1
        /\ cache_get(cache, k2, now) = lastSet[k2].v
        /\ lastSet[k2].v # None

\* A seed market matches the category filter: no category, or the same
\* category whatever the case.
MatchesCategory(i, category) ==
    category = NoneStr \/ lower(MOCK_MARKETS[i].category) = lower(category)

\* A seed market matches the search filter: no search, or the text is found,
\* whatever the case, in the question or in the string form of the tags.
MatchesSearch(i, search) ==
    \/ search = NoneStr
    \/ Contains(lower(search), lower(MOCK_MARKETS[i].question))
    \/ Contains(lower(search), lower(ListToStr(MOCK_MARKETS[i].tags)))

Matching(r) ==
    {i \in 1..Len(MOCK_MARKETS) : MatchesCategory(i, r.category) /\ MatchesSearch(i, r.search)}

\* C2: the total_count of every list_markets response is the number of seed
\* markets matching the request's category and search, whatever was served
\* before.
C2_TotalCountMatchesFilters ==
    resp.handler = "list_markets" => resp.body.total_count = Cardinality(Matching(resp.req))

\* The numeric field sort_by selects; any other name selects volume_24h_usd.
SelectedField(sort_by, i) ==
    IF sort_by = S_total_volume THEN MOCK_MARKETS[i].total_volume_usd
    ELSE IF sort_by = S_num_traders THEN MOCK_MARKETS[i].num_traders
    ELSE IF sort_by = S_yes_price THEN MOCK_MARKETS[i].yes_price_bps
    ELSE MOCK_MARKETS[i].volume_24h_usd

\* C3: the markets of every list_markets response are in descending order of
\* the field sort_by selects, equal values in seed order, and an unrecognised
\* sort_by gives the order of sort_by=volume_24h.
C3_SortedDescendingStable ==
    resp.handler = "list_markets" =>
        LET ms == resp.body.markets
            f(i) == SelectedField(resp.req.sort_by, i)
        IN  /\ \A a, b \in 1..Len(ms) :
                  a < b => \/ f(ms[a]) > f(ms[b])
                           \/ f(ms[a]) = f(ms[b]) /\ ms[a] < ms[b]
            /\ resp.req.sort_by \notin {S_volume_24h, S_total_volume, S_num_traders, S_yes_price}
                  => ms = ListCompute([resp.req EXCEPT !.sort_by = S_volume_24h]).markets

\* The filtered, sorted list of a request.
FilteredSorted(r) ==
    LET InMatching(i) == i \in Matching(r)
    IN  SortDesc(SelectSeq(SeedRefs, InMatching),
                 [i \in 1..Len(MOCK_MARKETS) |-> SelectedField(r.sort_by, i)])

\* C4: a list_markets response holds min(page_size, max(0, total_count -
\* (page-1)*page_size)) markets, they are positions (page-1)*page_size ..
\* page*page_size-1 of the filtered, sorted list, and total_count is the full
\* count after filtering.
C4_PageOfFilteredSorted ==
    resp.handler = "list_markets" =>
        LET r == resp.req
            ms == resp.body.markets
            full == FilteredSorted(r)
            start == (r.page - 1) * r.page_size
        IN  /\ Len(ms) = MinOf(r.page_size, MaxOf(0, resp.body.total_count - start))
            /\ resp.body.total_count = Len(full)
            /\ \A j \in 1..Len(ms) : start + j <= Len(full) /\ ms[j] = full[start + j]

\* What get_market answered: 404 with the id in the message and no record
\* for an id that is not a seed id, the seed record with that id otherwise.
GetMarketAnswerRight ==
    resp.handler = "get_market" =>
        IF resp.req.market_id \notin SeedIds
        THEN /\ resp.status = 404
             /\ resp.body = None
             /\ Contains(IntToStr(resp.req.market_id), resp.detail)
        ELSE /\ resp.status = 200
             /\ resp.body.kind = "market"
             /\ MOCK_MARKETS[resp.body.ref].market_id = resp.req.market_id

\* C5: in every reachable state get_market with an id that is not a seed id
\* answers 404 with the id in the message and no record, and leaves the
\* cache as it was; with a seed id it returns the seed record that has
\* exactly that id.
C5_GetMarketNotFound ==
    /\ []GetMarketAnswerRight
    /\ [][(served' # served /\ resp'.handler = "get_market"
           /\ resp'.req.market_id \notin SeedIds) => cache' = cache]_vars

\* An unknown id asked for when the cache already holds entries.
C5_Witness ==
    /\ resp.handler = "get_market"
    /\ resp.req.market_id \notin SeedIds
    /\ resp.status = 404
    /\ cache # <<>>

\* C6: the image_url stored by POST /markets is the request's image_url when
\* one is given, else the gateway prefix followed by image_ipfs_hash when
\* that is given, else empty.
C6_ImageUrlStored ==
    resp.handler = "create_market_metadata" =>
        cache[PendingKey(resp.body.metadata_id)].val.image_url =
            IF resp.req.image_url # NoneStr THEN resp.req.image_url
            ELSE IF resp.req.image_ipfs_hash # NoneStr
                 THEN IPFS_GATEWAY \o resp.req.image_ipfs_hash
                 ELSE <<>>

\* C7: a POST /markets writes the one entry pending_meta:vp-<floor(now)>,
\* over whatever was there, and nothing else: every other entry is as
\* before, and list_markets, hot_markets and get_market answer as before.
C7_PostWritesOnlyItsEntry ==
    [][(served' # served /\ resp'.handler = "create_market_metadata") =>
        LET id == <<"v","p","-">> \o IntToStr(now \div TicksPerSecond)
            k == <<"p","e","n","d","i","n","g","_","m","e","t","a",":">> \o id
        IN  /\ resp'.body.metadata_id = id
            /\ DOMAIN cache' = (DOMAIN cache) \cup {k}
            /\ \A j \in DOMAIN cache : j # k => cache'[j] = cache[j]
            /\ cache'[k].ts = now
            /\ cache'[k].val.metadata_id = id
            /\ cache'[k].val.created_at = now
            /\ \A r \in ListRequests : ListReturns(cache', now', r) = ListReturns(cache, now, r)
            /\ \A l \in HotLimits : HotReturns(cache', now', l) = HotReturns(cache, now, l)
            /\ \A m \in MarketIds : MarketReturns(cache', now', m) = MarketReturns(cache, now, m)
      ]_vars

\* Two POSTs in one second: the key was set twice and holds the later record.
C7_Witness ==
    /\ resp.handler = "create_market_metadata"
    /\ \E k \in DOMAIN lastSet :
          /\ k = PendingKey(resp.body.metadata_id)
          /\ lastSet[k].n = 2
          /\ cache[k].val.created_at = 1
          /\ FloorSeconds(cache[k].val.created_at) = 0

C9_CacheTransparent ==
    resp.handler = "list_markets" => resp.body = ListResultOf[resp.req]

\* The values computed from the seed data by the requests that have key k.
ValuesForKey(k) ==
    {ListResultOf[r] : r \in {q \in ConcListRequests : ListKeyOf[q] = k}}
    \cup {HotCompute(l) : l \in {m \in ConcHotLimits : HotKey(m) = k}}

\* C10: with the cache_get, compute and cache_set steps of several requests
\* interleaved, every response and every cache entry holds a value computed
\* from the seed data for its own key, whole, and the entry of a key is the
\* time and value of the last cache_set on it.
C10_RacesKeepComputedValues ==
    /\ \A k \in DOMAIN cache :
          /\ cache[k].val \in ValuesForKey(k)
          /\ cache[k] = [ts |-> lastSet[k].t, val |-> lastSet[k].v]
    /\ resp.handler \in {"list_markets", "hot_markets"} =>
          resp.body \in ValuesForKey(HandlerKey(resp.handler, resp.req))

\* Two requests for one key both missed, both computed and both wrote it, the
\* second a tick after the first, which was still fresh.
C10_Witness ==
    \E k \in DOMAIN lastSet :
        /\ lastSet[k].n = 2
        /\ now = 1
        /\ cache[k].ts = 1
        /\ \A p \in 1..NumProcs : procs[p].pc = "done" /\ procs[p].key = k

\* The handlers that look their answer up in the cache before computing it.
CachingHandlers == {"list_markets", "hot_markets", "get_market"}

\* The cache key of the request answered by rp.
RespKey(rp) ==
    CASE rp.handler = "list_markets" -> ListKeyOf[rp.req]
      [] rp.handler = "hot_markets" -> HotKey(rp.req.limit)
      [] rp.handler = "get_market" -> MarketKey(rp.req.market_id)

\* The entry of key k in c has not aged out at time t.
FreshIn(c, k, t) ==
    k \in DOMAIN c /\ t - c[k].ts < CACHE_TTL_SECONDS * TicksPerSecond

\* Every entry carries the time of the last cache_set on its key.
EntriesDatedBySet ==
    \A k \in DOMAIN cache : k \in DOMAIN lastSet /\ cache[k].ts = lastSet[k].t

\* No step removes a key; a step changes at most one entry, and only by a
\* cache_set on that entry's key at the current time.
KeysKept ==
    /\ DOMAIN cache \subseteq DOMAIN cache'
    /\ \A k \in DOMAIN cache :
          cache'[k] # cache[k] =>
              /\ cache'[k].ts = now
              /\ lastSet'[k].n = lastSet[k].n + 1
              /\ \A j \in DOMAIN cache \ {k} : cache'[j] = cache[j]

\* A caching handler that finds a fresh entry returns it and sets nothing;
\* one that finds an expired or no entry touches no other key.  Either way
\* the value it returns with status 200 was computed less than the TTL ago.
LookupsLeaveCache ==
    (served' # served /\ resp'.handler \in CachingHandlers) =>
        LET K == RespKey(resp')
        IN  /\ IF FreshIn(cache, K, now)
               THEN /\ cache' = cache
                    /\ lastSet' = lastSet
                    /\ resp'.body = cache[K].val
               ELSE \A k \in DOMAIN cache \ {K} : cache'[k] = cache[k]
            /\ resp'.status = 200 =>
                  /\ K \in DOMAIN lastSet'
                  /\ lastSet'[K].v = resp'.body
                  /\ now - lastSet'[K].t < CACHE_TTL_SECONDS * TicksPerSecond

\* C11: no step removes a key from the cache; an expired entry stays stored
\* until a cache_set on its own key; a handler that finds a fresh entry
\* leaves the whole cache as it was and sets nothing, so every entry's
\* timestamp is the time its value was last computed and no value is
\* returned CACHE_TTL_SECONDS or more after it was computed.
C11_NoRemovalNoRefresh ==
    /\ []EntriesDatedBySet
    /\ [][KeysKept /\ LookupsLeaveCache]_vars

\* A list_markets request was answered from the cache (its body is the
\* stored value and not its own result), nothing was set since the entry
\* was first stored, and the entry, now aged the full TTL, is still stored.
C11_Witness ==
    /\ resp.handler = "list_markets"
    /\ ListKeyOf[resp.req] \in DOMAIN cache
    /\ resp.body = cache[ListKeyOf[resp.req]].val
    /\ resp.body # ListResultOf[resp.req]
    /\ lastSet[ListKeyOf[resp.req]].n = 1
    /\ now - cache[ListKeyOf[resp.req]].ts >= CACHE_TTL_SECONDS * TicksPerSecond
    /\ cache_get(cache, ListKeyOf[resp.req], now) = None

=============================================================================
